---- MODULE Spec2Model ----
(***************************************************************************)
(* Verification model of the SPV client core (Elastos.ELA.SPV):            *)
(*   - bloom.CheckMerkleBlock and its helpers (partial merkle tree check)   *)
(*   - serialization codec reads (ReadUintN, ReadVarUint, byteXReader)      *)
(*   - msg.Header framing (Deserialize, Verify)                             *)
(*   - sdk.AddrFilter (mutex guarded address map)                           *)
(*   - WriteVarUint / ReadVarUint and Serialize / Deserialize of OutPoint,  *)
(*     DataReq, MerkleBlock, Header and FunctionCode                        *)
(*   - the UTXO / STXO ledger of section 4.6 of the specification           *)
(*   - CheckMerkleBlock on machine words, one loop pass at a time           *)
(* Hashes are modelled symbolically: a leaf hash is <<k>>, the SHA256D of   *)
(* the concatenation of two hashes is the pair <<l, r>> (collision free),   *)
(* and the nil pointer is <<>>.                                             *)
(***************************************************************************)
EXTENDS Integers, Sequences, FiniteSets, TLC

VARIABLES
    \* ---- merkle verifier (CheckMerkleBlock) ----
    scen,      \* how the merkle block under test was produced
    blk,       \* the MerkleBlock message handed to CheckMerkleBlock
    s,         \* the node stack
    r,         \* txids collected so far
    pos,       \* current position in the tree
    fi,        \* position in the current flag byte (var i uint8)
    hs,        \* m.Hashes still unread
    fl,        \* m.Flags still unread
    msb,       \* nextPowerOfTwo(m.Transactions)
    status,    \* "init", "running", "ok", "err", "panic"
    errmsg,    \* the error returned
    ret,       \* the slice returned
    bidx,      \* number of returned txids whose branch has been checked
    branchOk,  \* every branch checked so far reproduced the merkle root
    \* ---- codec reads (package serialization) ----
    cin,       \* the bytes the reader holds
    cpc,       \* "ready" before the read, "done" after it
    cop,       \* the read that was made and its argument
    cout,      \* what the read returned
    \* ---- message framing (msg.Header) ----
    fbuf,      \* the 24 header bytes received
    fbody,     \* the body received: its length and the checksum it hashes to
    fhdr,      \* the Header the bytes were read into
    fpc,       \* "recv", "parsed", "accepted", "rejected"
    ferr,      \* the error returned
    \* ---- sdk.AddrFilter and its callers ----
    addrs,     \* filter.addrs: the map, address -> stored address
    lock,      \* the caller holding filter's mutex, 0 when it is free
    apc,       \* where each caller is in its call
    aop,       \* the call each caller is making
    atodo,     \* LoadAddrs: addresses still to insert; GetAddrs: keys still to visit
    aview,     \* GetAddrs: "live" while the map ranged over is still filter.addrs
    aacc,      \* GetAddrs: the slice built so far
    ares,      \* the value each caller's call returned
    live,      \* addresses loaded by the last load or added, and not deleted since
    kept,      \* addresses ever loaded or added, and not deleted since
    raced,     \* a write to the map happened while another caller ranged over it
    crashed,   \* the runtime stopped the process on a concurrent map access
    \* ---- Serialize followed by Deserialize ----
    wkind,     \* the type of the value
    wval,      \* the value serialized
    wbuf,      \* the bytes written
    wpc,       \* "value", "written", "read"
    wout,      \* what reading the bytes back returned
    \* ---- UTXO / STXO ledger ----
    utxos,     \* the live UTXOs
    stxos,     \* the live STXOs
    chain,     \* the matched transactions of each block of the best chain, by height
    \* ---- CheckMerkleBlock on machine words, loop by loop ----
    tblk,      \* the MerkleBlock passed; m.Hashes and m.Flags shrink as they are read
    tpc,       \* "start", "treeDepth", "top", "inDeadZone", "ops", "done"
    te,        \* treeDepth: e
    tmsb,      \* msb
    tpos,      \* pos
    ti,        \* i, the position in the current flag byte
    ts,        \* the stack
    tr,        \* the txids to return
    tdz,       \* inDeadZone: h, last and the value returned
    tout       \* "ok", the error returned, or "panic"

mvars == <<scen, blk, s, r, pos, fi, hs, fl, msb, status, errmsg, ret, bidx, branchOk>>

cvars == <<cin, cpc, cop, cout>>

fvars == <<fbuf, fbody, fhdr, fpc, ferr>>

avars == <<addrs, lock, apc, aop, atodo, aview, aacc, ares, live, kept, raced, crashed>>

wvars == <<wkind, wval, wbuf, wpc, wout>>

lvars == <<utxos, stxos, chain>>

tvars == <<tblk, tpc, te, tmsb, tpos, ti, ts, tr, tdz, tout>>

vars == <<mvars, cvars, fvars, avars, wvars, lvars, tvars>>

notMerkle == <<cvars, fvars, avars, wvars, lvars, tvars>>

notCodec == <<mvars, fvars, avars, wvars, lvars, tvars>>

notFramer == <<mvars, cvars, avars, wvars, lvars, tvars>>

notAddr == <<mvars, cvars, fvars, wvars, lvars, tvars>>

notWire == <<mvars, cvars, fvars, avars, lvars, tvars>>

notLedger == <<mvars, cvars, fvars, avars, wvars, tvars>>

notWords == <<mvars, cvars, fvars, avars, wvars, lvars>>

----------------------------------------------------------------------------
\* Bounds of the model

MaxTx == 7        \* honest merkle blocks have 1..MaxTx transactions
MaxMutTx == 4     \* tampered merkle blocks are made from 1..MaxMutTx transactions
MaxDupTx == 8     \* duplicate-leaf blocks claim up to MaxDupTx transactions
MaxPayload == 8   \* codec inputs hold one leading byte and up to MaxPayload more
NumCallers == 2   \* concurrent callers of the AddrFilter
NumAddrs == 2     \* distinct addresses
MaxList == 2      \* longest address list passed to NewAddrFilter and LoadAddrs
MaxHashes == 2    \* longest hash list of a serialized MerkleBlock
NumTx == 3        \* transactions of the wallet: each spends the output of the one before
MaxHeight == 3    \* highest block of the best chain
WordBits == 4     \* bits of a machine word: uint32 scaled down, shift counts alike
MaxWordHashes == 3  \* longest hash list of a block checked on machine words
MaxWordFlags == 2   \* most flag bytes of a block checked on machine words
MaxFlags == 2     \* most flag bytes of a serialized MerkleBlock
MaxCode == 2      \* most bytes of the Code of a FunctionCode
MaxTypes == 2     \* longest parameter or return type list of a FunctionCode

----------------------------------------------------------------------------
\* Machine arithmetic on uint32 values (all values of the model stay below 2^31)

Min(a, b) == IF a < b THEN a ELSE b

RECURSIVE Pow2(_)
Pow2(k) == IF k = 0 THEN 1 ELSE 2 * Pow2(k - 1)

Shl(x, k) == x * Pow2(k)

Shr(x, k) == x \div Pow2(k)

RECURSIVE BitOr(_, _)
BitOr(a, b) ==
    IF a = 0 THEN b
    ELSE IF b = 0 THEN a
    ELSE (IF a % 2 = 1 \/ b % 2 = 1 THEN 1 ELSE 0) + 2 * BitOr(a \div 2, b \div 2)

RECURSIVE BitAnd(_, _)
BitAnd(a, b) ==
    IF a = 0 \/ b = 0 THEN 0
    ELSE (IF a % 2 = 1 /\ b % 2 = 1 THEN 1 ELSE 0) + 2 * BitAnd(a \div 2, b \div 2)

RECURSIVE BitXor(_, _)
BitXor(a, b) ==
    IF a = 0 THEN b
    ELSE IF b = 0 THEN a
    ELSE (IF a % 2 # b % 2 THEN 1 ELSE 0) + 2 * BitXor(a \div 2, b \div 2)

----------------------------------------------------------------------------
\* Hashes

Nil == <<>>

Leaf(k) == <<k>>

\* Sha256D of the 64 bytes left || right
Sha256D(left, right) == <<left, right>>

MakeMerkleParentNoDupCheck(left, right) ==
    IF left = Nil THEN [h |-> Nil, err |-> "Left child is nil"]
    ELSE [h |-> Sha256D(left, IF right = Nil THEN left ELSE right), err |-> ""]

MakeMerkleParent(left, right) ==
    IF left # Nil /\ right # Nil /\ left = right
    THEN [h |-> Nil, err |-> "DUP HASH CRASH"]
    ELSE IF left = Nil THEN [h |-> Nil, err |-> "Left child is nil"]
    ELSE [h |-> Sha256D(left, IF right = Nil THEN left ELSE right), err |-> ""]

RECURSIVE treeDepthFrom(_, _)
treeDepthFrom(n, e) == IF Shl(1, e) < n THEN treeDepthFrom(n, e + 1) ELSE e

treeDepth(n) == treeDepthFrom(n, 0)

nextPowerOfTwo(n) == Shl(1, treeDepth(n))

RECURSIVE deadZoneLoop(_, _, _, _)
deadZoneLoop(p, h, last, m) ==
    IF p >= h
    THEN deadZoneLoop(p, BitOr(Shr(h, 1), m), BitOr(Shr(last, 1), m), m)
    ELSE p > last

inDeadZoneRootOnly(p, size) == p > Shl(nextPowerOfTwo(size), 1) - 2

inDeadZone(p, size) ==
    LET m == nextPowerOfTwo(size)
    IN  IF p > Shl(m, 1) - 2 THEN TRUE
        ELSE deadZoneLoop(p, m, size - 1, m)

----------------------------------------------------------------------------
\* Construction of a partial merkle tree from all the leaves of a block
\* (MBlock: NumTx, AllHashes, MatchedBits; the builder the test harness uses)

CalcTreeWidth(numTx, height) == Shr(numTx + Shl(1, height) - 1, height)

RECURSIVE CalcHash(_, _, _)
CalcHash(all, height, p) ==
    IF height = 0 THEN all[p + 1]
    ELSE LET left == CalcHash(all, height - 1, 2 * p)
             right == IF 2 * p + 1 < CalcTreeWidth(Len(all), height - 1)
                      THEN CalcHash(all, height - 1, 2 * p + 1)
                      ELSE left
         IN  Sha256D(left, right)

\* some leaf below node (height, p) is matched
IsParent(n, matched, height, p) ==
    \E q \in Shl(p, height) .. (Min(Shl(p + 1, height), n) - 1) : q \in matched

RECURSIVE TraverseAndBuild(_, _, _, _)
TraverseAndBuild(all, matched, height, p) ==
    LET isParent == IsParent(Len(all), matched, height, p)
        bit == IF isParent THEN 1 ELSE 0
    IN  IF height = 0 \/ ~isParent
        THEN [bits |-> <<bit>>, hashes |-> <<CalcHash(all, height, p)>>, kinds |->
                 <<IF height = 0 THEN "leaf" ELSE "node">>]
        ELSE LET lt == TraverseAndBuild(all, matched, height - 1, 2 * p)
                 rt == IF 2 * p + 1 < CalcTreeWidth(Len(all), height - 1)
                       THEN TraverseAndBuild(all, matched, height - 1, 2 * p + 1)
                       ELSE [bits |-> <<>>, hashes |-> <<>>, kinds |-> <<>>]
             IN  [bits |-> <<bit>> \o lt.bits \o rt.bits,
                  hashes |-> lt.hashes \o rt.hashes,
                  kinds |-> <<"node">> \o lt.kinds \o rt.kinds]

RECURSIVE TreeHeightFrom(_, _)
TreeHeightFrom(numTx, height) ==
    IF CalcTreeWidth(numTx, height) > 1 THEN TreeHeightFrom(numTx, height + 1) ELSE height

\* Flags[i/8] |= Bits[i] << (i % 8)
RECURSIVE FlagByte(_, _, _)
FlagByte(bits, j, k) ==
    IF k = 8 THEN 0
    ELSE (IF 8 * j + k + 1 <= Len(bits) THEN Shl(bits[8 * j + k + 1], k) ELSE 0)
         + FlagByte(bits, j, k + 1)

PackFlags(bits) == [j \in 1 .. ((Len(bits) + 7) \div 8) |-> FlagByte(bits, j - 1, 0)]

\* run(txs): the merkle block built from the leaves `all` with `matched` leaves
BuildMerkleBlock(all, matched) ==
    LET built == TraverseAndBuild(all, matched, TreeHeightFrom(Len(all), 0), 0)
    IN  [Transactions |-> Len(all),
         Hashes |-> built.hashes,
         Flags |-> PackFlags(built.bits),
         MerkleRoot |-> CalcHash(all, treeDepth(Len(all)), 0)]

----------------------------------------------------------------------------
\* The merkle blocks handed to CheckMerkleBlock

\* n pairwise distinct leaf hashes (randHash)
LeafIds(n) == [i \in 1 .. n |-> i - 1]

HashesOf(ids) == [i \in 1 .. Len(ids) |-> Leaf(ids[i])]

RootOf(ids) == CalcHash(HashesOf(ids), treeDepth(Len(ids)), 0)

NoMut == [op |-> "none", idx |-> 0, val |-> Nil]

HonestScenarios ==
    { [kind |-> "honest", n |-> n, ids |-> LeafIds(n), matched |-> m, mut |-> NoMut] :
        n \in 1 .. MaxTx, m \in SUBSET (0 .. (MaxTx - 1)) }

\* a block of n real transactions presented with k more leaves that repeat
\* real ones, such that the merkle root is unchanged (CVE-2012-2459)
DupIds(n, k) ==
    IF n + k > MaxDupTx THEN {}
    ELSE { LeafIds(n) \o ext : ext \in [1 .. k -> 0 .. (n - 1)] }

DupScenarios ==
    UNION { UNION { { [kind |-> "dup", n |-> n, ids |-> ids, matched |-> m, mut |-> NoMut] :
                        m \in SUBSET (0 .. (n + k - 1)) } :
                    ids \in { d \in DupIds(n, k) : RootOf(d) = RootOf(LeafIds(n)) } } :
            n \in 1 .. (MaxDupTx - 1), k \in 1 .. (MaxDupTx - 1) }

\* every hash of the true tree of n leaves, and one hash that is not in it
RECURSIVE LevelHashes(_, _)
LevelHashes(all, height) ==
    LET w == CalcTreeWidth(Len(all), height)
        level == [p \in 1 .. w |-> CalcHash(all, height, p - 1)]
    IN  IF w <= 1 THEN level ELSE level \o LevelHashes(all, height + 1)

HashPool(n) == LevelHashes(HashesOf(LeafIds(n)), 0) \o <<Leaf(n)>>

Mutations(n, b) ==
    { [op |-> "hash", idx |-> i, val |-> HashPool(n)[v]] :
        i \in 1 .. Len(b.Hashes), v \in 1 .. Len(HashPool(n)) }
    \cup { [op |-> "bit", idx |-> i, val |-> Nil] : i \in 0 .. (8 * Len(b.Flags) - 1) }
    \cup { [op |-> "addHash", idx |-> 0, val |-> HashPool(n)[v]] : v \in 1 .. Len(HashPool(n)) }
    \cup { [op |-> "dropHash", idx |-> 0, val |-> Nil],
           [op |-> "dropFlags", idx |-> 0, val |-> Nil] }
    \cup { [op |-> "setTx", idx |-> t, val |-> Nil] : t \in (0 .. (n + 1)) \ {n} }

MutatedScenarios ==
    UNION { { [kind |-> "mutated", n |-> n, ids |-> LeafIds(n), matched |-> m, mut |-> mu] :
                mu \in { x \in Mutations(n, BuildMerkleBlock(HashesOf(LeafIds(n)), m)) :
                           \/ x.op # "hash"
                           \/ x.val # BuildMerkleBlock(HashesOf(LeafIds(n)), m).Hashes[x.idx] } } :
            n \in 1 .. MaxMutTx, m \in SUBSET (0 .. (MaxMutTx - 1)) }

WellFormed(sc) == sc.matched \subseteq 0 .. (Len(sc.ids) - 1)

Scenarios == { sc \in HonestScenarios \cup DupScenarios \cup MutatedScenarios : WellFormed(sc) }

ApplyMut(b, mu) ==
    CASE mu.op = "none" -> b
      [] mu.op = "hash" -> [b EXCEPT !.Hashes[mu.idx] = mu.val]
      [] mu.op = "bit" ->
            [b EXCEPT !.Flags[(mu.idx \div 8) + 1] = BitXor(@, Shl(1, mu.idx % 8))]
      [] mu.op = "addHash" -> [b EXCEPT !.Hashes = Append(@, mu.val)]
      [] mu.op = "dropHash" -> [b EXCEPT !.Hashes = SubSeq(@, 1, Len(@) - 1)]
      [] mu.op = "dropFlags" -> [b EXCEPT !.Flags = SubSeq(@, 1, Len(@) - 1)]
      [] mu.op = "setTx" -> [b EXCEPT !.Transactions = mu.idx]

\* the header carries the merkle root of the real block (the first n leaves)
ScenBlock(sc) ==
    ApplyMut([BuildMerkleBlock(HashesOf(sc.ids), sc.matched)
                 EXCEPT !.MerkleRoot = RootOf(LeafIds(sc.n))], sc.mut)

----------------------------------------------------------------------------
\* Branch extraction: MerkleBlock.GetTxMerkleBranch and auxpow.GetMerkleRoot

\* m.Flags[0]&(1<<i) != 0
FlagSet(b, i) == BitAnd(b, Shl(1, i)) # 0

NoNodes == [h |-> Nil, nodes |-> <<>>, bi |-> 0, hi |-> 0, ok |-> FALSE]

\* bit number bi of the flag bytes
FlagBitAt(flags, bi) == FlagSet(flags[(bi \div 8) + 1], bi % 8)

\* depth-first reading of the partial tree below node (height, p): the hash of
\* every node that is given or can be computed
RECURSIVE ExtractNodes(_, _, _, _, _)
ExtractNodes(b, height, p, bi, hi) ==
    IF bi >= 8 * Len(b.Flags) THEN NoNodes
    ELSE IF height = 0 \/ ~FlagBitAt(b.Flags, bi)
    THEN IF hi >= Len(b.Hashes) THEN NoNodes
         ELSE [h |-> b.Hashes[hi + 1],
               nodes |-> <<[height |-> height, p |-> p, h |-> b.Hashes[hi + 1]]>>,
               bi |-> bi + 1, hi |-> hi + 1, ok |-> TRUE]
    ELSE LET lt == ExtractNodes(b, height - 1, 2 * p, bi + 1, hi)
             hasRight == 2 * p + 1 < CalcTreeWidth(b.Transactions, height - 1)
             rt == IF lt.ok /\ hasRight
                   THEN ExtractNodes(b, height - 1, 2 * p + 1, lt.bi, lt.hi)
                   ELSE [lt EXCEPT !.nodes = <<>>]
             h == Sha256D(lt.h, rt.h)
         IN  IF ~lt.ok \/ ~rt.ok THEN NoNodes
             ELSE [h |-> h,
                   nodes |-> lt.nodes \o rt.nodes \o <<[height |-> height, p |-> p, h |-> h]>>,
                   bi |-> rt.bi, hi |-> rt.hi, ok |-> TRUE]

NodeHash(nodes, height, p) ==
    LET at == { k \in 1 .. Len(nodes) : nodes[k].height = height /\ nodes[k].p = p }
    IN  IF at = {} THEN Nil ELSE nodes[CHOOSE k \in at : TRUE].h

RECURSIVE BranchFrom(_, _, _, _, _)
BranchFrom(nodes, numTx, top, idx, level) ==
    IF level >= top THEN <<>>
    ELSE LET p == Shr(idx, level)
             sib == BitXor(p, 1)
             h == IF sib < CalcTreeWidth(numTx, level)
                  THEN NodeHash(nodes, level, sib)
                  ELSE NodeHash(nodes, level, p)
         IN  <<h>> \o BranchFrom(nodes, numTx, top, idx, level + 1)

\* the branch (sibling hashes, leaf index) of txId in the merkle block b
GetTxMerkleBranch(b, txId) ==
    LET top == TreeHeightFrom(b.Transactions, 0)
        ex == ExtractNodes(b, top, 0, 0, 0)
        found == { q \in 0 .. (b.Transactions - 1) : NodeHash(ex.nodes, 0, q) = txId }
        idx == CHOOSE q \in found : \A q2 \in found : q <= q2
        branches == BranchFrom(ex.nodes, b.Transactions, top, idx, 0)
    IN  IF ~ex.ok \/ found = {} \/ \E i \in 1 .. Len(branches) : branches[i] = Nil
        THEN [Branches |-> <<>>, Index |-> 0, err |-> "txid not in merkle block"]
        ELSE [Branches |-> branches, Index |-> idx, err |-> ""]

\* re-hash a leaf up its branch: bit i of index selects the side at level i
RECURSIVE GetMerkleRoot(_, _, _)
GetMerkleRoot(hash, branches, index) ==
    IF Len(branches) = 0 THEN hash
    ELSE GetMerkleRoot(IF index % 2 = 1
                       THEN Sha256D(branches[1], hash)
                       ELSE Sha256D(hash, branches[1]),
                       Tail(branches), Shr(index, 1))

----------------------------------------------------------------------------
\* CheckMerkleBlock: one action per pass of its main loop

tip == Len(s) - 1

IsUpper(p, m) == BitAnd(p, m) # 0

\* position after a filled upper node: right side ascends, left side goes to sibling
AfterFill(p, m) == IF BitAnd(p, 1) # 0 THEN BitOr(Shr(p, 1), m) ELSE BitOr(p, 1)

\* position after an empty upper node: descend to the left child
Descend(p, m) == Shl(BitXor(p, m), 1)

\* position after a txid node
AfterLeaf(p) == IF BitAnd(p, 1) = 0 THEN BitOr(p, 1) ELSE p

CollectParent(list, h, bit) == IF bit THEN Append(list, Sha256D(h, h)) ELSE list

\* txids of interest after reading a txid node
Collect(list, h, bit) == IF bit THEN Append(list, h) ELSE list

RootAlwaysMatches(h, root) == TRUE

\* s[0].h.IsEqual(&m.BlockHeader.MerkleRoot)
RootMatches(h, root) == h = root

Fail(msg, out) ==
    /\ status' = "err"
    /\ errmsg' = msg
    /\ ret' = out
    /\ UNCHANGED <<scen, blk, s, r, pos, fi, hs, fl, msb, bidx, branchOk>>
    /\ UNCHANGED notMerkle

Panic ==
    /\ status' = "panic"
    /\ UNCHANGED <<scen, blk, s, r, pos, fi, hs, fl, msb, errmsg, ret, bidx, branchOk>>
    /\ UNCHANGED notMerkle

\* the tests CheckMerkleBlock makes, in its order, at the top of a pass
CanComplete == tip = 0 /\ s[1].h # Nil

CanDeadZone == ~CanComplete /\ inDeadZone(pos, blk.Transactions)

CanCombine ==
    /\ ~CanComplete /\ ~CanDeadZone
    /\ tip > 1 /\ s[tip].h # Nil /\ s[tip + 1].h # Nil

MustPush == ~CanComplete /\ ~CanDeadZone /\ ~CanCombine

AtComplete == status = "running" /\ CanComplete

AtDeadZone == status = "running" /\ CanDeadZone

AtCombine == status = "running" /\ CanCombine

AtPush == status = "running" /\ MustPush

Start ==
    /\ status = "init"
    /\ IF blk.Transactions = 0 THEN Fail("No transactions in merkleblock", <<>>)
       ELSE IF Len(blk.Flags) = 0 THEN Fail("No flag bits", <<>>)
       ELSE /\ status' = "running"
            /\ msb' = nextPowerOfTwo(blk.Transactions)
            /\ pos' = Shl(nextPowerOfTwo(blk.Transactions), 1) - 2
            /\ hs' = blk.Hashes
            /\ fl' = blk.Flags
            /\ UNCHANGED <<scen, blk, s, r, fi, errmsg, ret, bidx, branchOk>>
            /\ UNCHANGED notMerkle

Complete ==
    /\ AtComplete
    /\ IF RootMatches(s[1].h, blk.MerkleRoot)
       THEN /\ status' = "ok"
            /\ ret' = r
            /\ UNCHANGED <<scen, blk, s, r, pos, fi, hs, fl, msb, errmsg, bidx, branchOk>>
            /\ UNCHANGED notMerkle
       ELSE Fail("computed root differs", <<>>)

DeadZone ==
    /\ AtDeadZone
    /\ IF tip < 0 THEN Panic
       ELSE LET par == MakeMerkleParent(s[tip + 1].h, Nil)
            IN  IF par.err # "" THEN Fail(par.err, r)
                ELSE IF tip = 0 THEN Panic
                ELSE /\ s' = [SubSeq(s, 1, tip) EXCEPT ![tip].h = par.h]
                     /\ pos' = BitOr(s[tip].p, 1)
                     /\ UNCHANGED <<scen, blk, r, fi, hs, fl, msb, status, errmsg, ret,
                                    bidx, branchOk>>
                     /\ UNCHANGED notMerkle

Combine ==
    /\ AtCombine
    /\ LET par == MakeMerkleParent(s[tip].h, s[tip + 1].h)
       IN  IF par.err # "" THEN Fail(par.err, r)
           ELSE /\ s' = [SubSeq(s, 1, tip - 1) EXCEPT ![tip - 1].h = par.h]
                /\ pos' = BitOr(s[tip - 1].p, 1)
                /\ UNCHANGED <<scen, blk, r, fi, hs, fl, msb, status, errmsg, ret,
                               bidx, branchOk>>
                /\ UNCHANGED notMerkle

Push ==
    /\ AtPush
    /\ IF Len(hs) = 0 THEN Fail("Ran out of hashes", <<>>)
       ELSE IF Len(fl) = 0 THEN Fail("Ran out of flag bits.", <<>>)
       ELSE IF ~IsUpper(pos, msb) /\ pos >= blk.Transactions
            THEN Fail("got into an invalid txid node", <<>>)
       ELSE /\ IF IsUpper(pos, msb)
               THEN IF ~FlagSet(fl[1], fi)
                    THEN /\ s' = Append(s, [p |-> pos, h |-> hs[1]])
                         /\ hs' = Tail(hs)
                         /\ pos' = AfterFill(pos, msb)
                         /\ r' = r
                    ELSE /\ s' = Append(s, [p |-> pos, h |-> Nil])
                         /\ hs' = hs
                         /\ pos' = Descend(pos, msb)
                         /\ r' = r
               ELSE /\ s' = Append(s, [p |-> pos, h |-> hs[1]])
                    /\ hs' = Tail(hs)
                    /\ r' = Collect(r, hs[1], FlagSet(fl[1], fi))
                    /\ pos' = AfterLeaf(pos)
            /\ fi' = IF fi + 1 = 8 THEN 0 ELSE fi + 1
            /\ fl' = IF fi + 1 = 8 THEN Tail(fl) ELSE fl
            /\ UNCHANGED <<scen, blk, msb, status, errmsg, ret, bidx, branchOk>>
            /\ UNCHANGED notMerkle

\* run(txs): one pass of the loop over the txids CheckMerkleBlock returned
CheckBranch ==
    /\ status = "ok"
    /\ bidx < Len(ret)
    /\ LET mb == GetTxMerkleBranch(blk, ret[bidx + 1])
       IN  branchOk' = (/\ branchOk
                        /\ mb.err = ""
                        /\ GetMerkleRoot(ret[bidx + 1], mb.Branches, mb.Index) = blk.MerkleRoot)
    /\ bidx' = bidx + 1
    /\ UNCHANGED <<scen, blk, s, r, pos, fi, hs, fl, msb, status, errmsg, ret>>
    /\ UNCHANGED notMerkle

MerkleIdle ==
    /\ scen = [kind |-> "none"]
    /\ blk = [Transactions |-> 0, Hashes |-> <<>>, Flags |-> <<>>, MerkleRoot |-> Nil]
    /\ s = <<>> /\ r = <<>> /\ pos = 0 /\ fi = 0 /\ hs = <<>> /\ fl = <<>> /\ msb = 0
    /\ status = "idle" /\ errmsg = "" /\ ret = <<>> /\ bidx = 0 /\ branchOk = TRUE

CodecIdle == cin = <<>> /\ cpc = "idle" /\ cop = <<>> /\ cout = <<>>

FramerIdle == fbuf = <<>> /\ fbody = <<>> /\ fhdr = <<>> /\ fpc = "idle" /\ ferr = ""

AddrIdle ==
    /\ addrs = <<>> /\ lock = 0 /\ apc = <<>> /\ aop = <<>> /\ atodo = <<>> /\ aview = <<>>
    /\ aacc = <<>> /\ ares = <<>> /\ live = {} /\ kept = {} /\ raced = FALSE /\ crashed = FALSE

WireIdle == wkind = "" /\ wval = <<>> /\ wbuf = <<>> /\ wpc = "" /\ wout = <<>>

LedgerIdle == utxos = {} /\ stxos = {} /\ chain = <<>>

WordsIdle ==
    /\ tblk = <<>> /\ tpc = "idle" /\ te = 0 /\ tmsb = 0 /\ tpos = 0 /\ ti = 0
    /\ ts = <<>> /\ tr = <<>> /\ tdz = <<>> /\ tout = ""

InitMerkle ==
    /\ scen \in Scenarios
    /\ blk = ScenBlock(scen)
    /\ s = <<>>
    /\ r = <<>>
    /\ pos = 0
    /\ fi = 0
    /\ hs = <<>>
    /\ fl = <<>>
    /\ msb = 0
    /\ status = "init"
    /\ errmsg = ""
    /\ ret = <<>>
    /\ bidx = 0
    /\ branchOk = TRUE
    /\ CodecIdle
    /\ FramerIdle
    /\ AddrIdle
    /\ WireIdle
    /\ LedgerIdle
    /\ WordsIdle

NextMerkle == Start \/ Complete \/ DeadZone \/ Combine \/ Push \/ CheckBranch

SpecMerkle == InitMerkle /\ [][NextMerkle]_vars

----------------------------------------------------------------------------
\* Claims about CheckMerkleBlock

Done == status \in {"ok", "err", "panic"}

RECURSIVE MatchedFrom(_, _, _)
MatchedFrom(ids, matched, i) ==
    IF i > Len(ids) THEN <<>>
    ELSE (IF (i - 1) \in matched THEN <<Leaf(ids[i])>> ELSE <<>>)
         \o MatchedFrom(ids, matched, i + 1)

\* the txids of the matched leaves, in ascending leaf order
MatchedTxIds(sc) == MatchedFrom(sc.ids, sc.matched, 1)

\* C1: an honestly built merkle block of N pairwise distinct leaves with matched
\* subset S is accepted, and the txids returned are exactly those of S, each
\* once, in ascending leaf order.
C1_HonestAccepted ==
    (scen.kind = "honest" /\ Done) =>
        (status = "ok" /\ errmsg = "" /\ ret = MatchedTxIds(scen))

C1_Witness ==
    /\ scen.kind = "honest" /\ status = "ok"
    /\ scen.n = 7 /\ Cardinality(scen.matched) = 3
    /\ Len(ret) = 3 /\ s[1].h = blk.MerkleRoot

\* two equal sibling hashes of the tree built from the presented leaves lie
\* below a node the partial tree descends into
PairRevealed(sc) ==
    LET all == HashesOf(sc.ids)
    IN  \E height \in 0 .. treeDepth(Len(all)) :
          \E p \in 0 .. (CalcTreeWidth(Len(all), height) - 1) :
              /\ p % 2 = 0
              /\ p + 1 < CalcTreeWidth(Len(all), height)
              /\ CalcHash(all, height, p) = CalcHash(all, height, p + 1)
              /\ IsParent(Len(all), sc.matched, height + 1, p \div 2)

\* C2: combining two filled siblings with equal hashes fails with "DUP HASH
\* CRASH"; a block that repeats leaves to claim more transactions under the
\* same merkle root and reveals the repeated pair is rejected with that error;
\* the single-child combination in the dead zone never raises it.
C2_DupHashDefense ==
    /\ [][(AtCombine /\ s[tip].h = s[tip + 1].h) =>
            (status' = "err" /\ errmsg' = "DUP HASH CRASH")]_vars
    /\ [][AtDeadZone => errmsg' # "DUP HASH CRASH"]_vars
    /\ []((scen.kind = "dup" /\ PairRevealed(scen) /\ Done) =>
            (status = "err" /\ errmsg = "DUP HASH CRASH"))

C2_Witness ==
    /\ scen.kind = "dup" /\ PairRevealed(scen)
    /\ scen.n = 6 /\ Len(scen.ids) = 8
    /\ RootOf(scen.ids) = blk.MerkleRoot
    /\ status = "err" /\ errmsg = "DUP HASH CRASH"

RanOutOfHashes == MustPush /\ Len(hs) = 0

RanOutOfFlags == MustPush /\ Len(fl) = 0

LeafBeyondTxCount == MustPush /\ ~IsUpper(pos, msb) /\ pos >= blk.Transactions

UnusedHashes == CanComplete /\ Len(hs) > 0

RootMismatch == CanComplete /\ s[1].h # blk.MerkleRoot

\* C3: a merkle block is rejected when the hash list or the flag bits run out,
\* a leaf position beyond tx_count is reached, hashes remain unused once the
\* root is computed, or the computed root differs from the header's.
C3_InconsistentRejected ==
    (/\ Done
     /\ blk.Transactions > 0 /\ Len(blk.Flags) > 0
     /\ \/ RanOutOfHashes
        \/ RanOutOfFlags
        \/ LeafBeyondTxCount
        \/ UnusedHashes
        \/ RootMismatch)
    => status = "err"

\* the kind of node the flipped flag bit belongs to in the untampered block
FlippedBitKind(sc) ==
    LET kinds == TraverseAndBuild(HashesOf(sc.ids), sc.matched,
                                  TreeHeightFrom(Len(sc.ids), 0), 0).kinds
    IN  IF sc.mut.idx + 1 <= Len(kinds) THEN kinds[sc.mut.idx + 1] ELSE "pad"

\* C4 as stated: changing one hash or flipping any one flag bit (internal,
\* leaf or padding) of an accepted honest block makes the check fail.
C4_AnyTamperRejected ==
    (scen.kind = "mutated" /\ scen.mut.op \in {"hash", "bit"} /\ Done) => status = "err"

\* C4 amended: changing one hash, or flipping one consumed internal-node flag
\* bit, of an accepted honest block makes the check fail.
C4_HashOrNodeBitTamperRejected ==
    (/\ scen.kind = "mutated"
     /\ \/ scen.mut.op = "hash"
        \/ scen.mut.op = "bit" /\ FlippedBitKind(scen) = "node"
     /\ Done)
    => status = "err"

C4_Witness ==
    /\ scen.kind = "mutated" /\ scen.n = 4
    /\ scen.mut.op = "bit" /\ FlippedBitKind(scen) = "node"
    /\ status = "err" /\ errmsg = "computed root differs"

\* C5: for every accepted merkle block and every txid returned,
\* GetTxMerkleBranch yields a branch whose re-hashing from the txid, with the
\* side at level i chosen by bit i of the index, reproduces the header's root.
C5_BranchReproducesRoot == status = "ok" => branchOk

C5_Witness ==
    /\ scen.kind = "honest" /\ scen.n = 7 /\ status = "ok"
    /\ bidx = Len(ret) /\ bidx = 3 /\ branchOk

----------------------------------------------------------------------------
\* Codec (package serialization). Unsigned integers are kept as their
\* little-endian bytes, least significant first, one byte per element.

Zeros(n) == [i \in 1 .. n |-> 0]

\* a zeroed buffer of n bytes after `data` was read into its front
Fill(data, n) == data \o Zeros(n - Len(data))

\* uint64(v)
ZeroExtend(v, n) == v \o Zeros(n - Len(v))

\* a < b for two little-endian values of the same width
LessLE(a, b) ==
    \E i \in 1 .. Len(a) : a[i] < b[i] /\ \A j \in (i + 1) .. Len(a) : a[j] = b[j]

MaxUint64 == [i \in 1 .. 8 |-> 255]

\* the number v as far as it matters against the length of an input
Small(v) == IF \A i \in 2 .. Len(v) : v[i] = 0 THEN v[1] ELSE 256

\* bytes.Reader.Read(p) with len(p) = want
ReaderRead(buf, want) ==
    IF Len(buf) = 0
    THEN [n |-> 0, err |-> "EOF", data |-> <<>>, rest |-> buf]
    ELSE LET n == Min(want, Len(buf))
         IN  [n |-> n, err |-> "", data |-> SubSeq(buf, 1, n),
              rest |-> SubSeq(buf, n + 1, Len(buf))]

\* ReadUint8, ReadUint16, ReadUint32, ReadUint64: width bytes, little endian
ReadUint(buf, width) ==
    LET rd == ReaderRead(buf, width)
    IN  IF rd.n <= 0 \/ rd.err # ""
        THEN [val |-> Zeros(width), err |-> "ErrEof", rest |-> rd.rest]
        ELSE [val |-> Fill(rd.data, width), err |-> "", rest |-> rd.rest]

\* bytes that follow the first byte of a VarUint
VarUintWidth(first) ==
    IF first = 253 THEN 2 ELSE IF first = 254 THEN 4 ELSE IF first = 255 THEN 8 ELSE 0

ReadVarUint(buf, maxint) ==
    LET mx == IF maxint = Zeros(8) THEN MaxUint64 ELSE maxint
        rd1 == ReaderRead(buf, 1)
        width == VarUintWidth(rd1.data[1])
        rd2 == ReaderRead(rd1.rest, width)
        res == IF width = 0 THEN ZeroExtend(rd1.data, 8)
               ELSE ZeroExtend(Fill(rd2.data, width), 8)
        rest == IF width = 0 THEN rd1.rest ELSE rd2.rest
    IN  IF rd1.err # "" THEN [val |-> Zeros(8), err |-> rd1.err, rest |-> rd1.rest]
        ELSE IF width # 0 /\ rd2.err # ""
        THEN [val |-> Zeros(8), err |-> rd2.err, rest |-> rd2.rest]
        ELSE IF LessLE(mx, res) THEN [val |-> Zeros(8), err |-> "ErrRange", rest |-> rest]
        ELSE [val |-> res, err |-> "", rest |-> rest]

\* make([]byte, x) panics when x is beyond the largest allocation (2^48 bytes)
MakePanics(x) == x[7] # 0 \/ x[8] # 0

\* byteXReader: the slice returned is `len` bytes long, `data` at its front
\* and zero after it
byteXReader(buf, x) ==
    LET rd == ReaderRead(buf, Small(x))
    IN  IF MakePanics(x) THEN [val |-> <<>>, len |-> x, err |-> "panic", rest |-> buf]
        ELSE IF rd.n > 0 THEN [val |-> rd.data, len |-> x, err |-> "", rest |-> rd.rest]
        ELSE [val |-> <<>>, len |-> x, err |-> rd.err, rest |-> rd.rest]

ReadVarBytes(buf) ==
    LET pre == ReadVarUint(buf, Zeros(8))
        str == byteXReader(pre.rest, pre.val)
    IN  IF pre.err # "" THEN [val |-> <<>>, len |-> Zeros(8), err |-> pre.err, rest |-> pre.rest]
        ELSE str

ReadBytes(buf, length) == byteXReader(buf, length)

\* the inputs and arguments the reads are tried on
FirstBytes == {0, 2, 252, 253, 254, 255}

PayloadBytes == {0, 255}

CodecInputs ==
    {<<>>} \cup UNION { { <<f>> \o pl : f \in FirstBytes, pl \in [1 .. k -> PayloadBytes] } :
                        k \in 0 .. MaxPayload }

MaxInts == { Zeros(8), ZeroExtend(<<252>>, 8) }

ReadLengths == { ZeroExtend(<<n>>, 8) : n \in {0, 1, 2, 4} }

Finish(name, arg, out) ==
    /\ cpc = "ready"
    /\ cpc' = "done"
    /\ cop' = [name |-> name, arg |-> arg]
    /\ cout' = out
    /\ UNCHANGED cin
    /\ UNCHANGED notCodec

DoReadUint8 == Finish("ReadUint8", 1, ReadUint(cin, 1))

DoReadUint16 == Finish("ReadUint16", 2, ReadUint(cin, 2))

DoReadUint32 == Finish("ReadUint32", 4, ReadUint(cin, 4))

DoReadUint64 == Finish("ReadUint64", 8, ReadUint(cin, 8))

DoReadVarUint == \E mx \in MaxInts : Finish("ReadVarUint", mx, ReadVarUint(cin, mx))

DoReadVarBytes == Finish("ReadVarBytes", 0, ReadVarBytes(cin))

DoReadBytes == \E n \in ReadLengths : Finish("ReadBytes", n, ReadBytes(cin, n))

InitCodec ==
    /\ cin \in CodecInputs
    /\ cpc = "ready"
    /\ cop = <<>>
    /\ cout = <<>>
    /\ MerkleIdle
    /\ FramerIdle
    /\ AddrIdle
    /\ WireIdle
    /\ LedgerIdle
    /\ WordsIdle

NextCodec ==
    \/ DoReadUint8 \/ DoReadUint16 \/ DoReadUint32 \/ DoReadUint64
    \/ DoReadVarUint \/ DoReadVarBytes \/ DoReadBytes

SpecCodec == InitCodec /\ [][NextCodec]_vars

----------------------------------------------------------------------------
\* Claims about the codec reads

\* the input encodes a value in a longer form than the shortest that fits
NonCanonical(buf) ==
    /\ Len(buf) >= 1
    /\ \/ buf[1] = 253 /\ Len(buf) >= 3 /\ buf[3] = 0 /\ buf[2] < 253
       \/ buf[1] = 254 /\ Len(buf) >= 5 /\ buf[4] = 0 /\ buf[5] = 0
       \/ buf[1] = 255 /\ Len(buf) >= 9 /\ \A i \in 6 .. 9 : buf[i] = 0

\* C9: ReadVarUint rejects, with an error, every input that encodes a value in
\* a longer form than the shortest one that fits.
C9_NonCanonicalRejected ==
    (cpc = "done" /\ cop.name = "ReadVarUint" /\ NonCanonical(cin)) => cout.err # ""

\* bytes the VarUint at the front of buf occupies
VarUintSize(buf) == 1 + VarUintWidth(buf[1])

\* the input holds fewer bytes than the read needs
ShortInput(op, buf) ==
    CASE op.name \in {"ReadUint8", "ReadUint16", "ReadUint32", "ReadUint64"} ->
            Len(buf) < op.arg
      [] op.name = "ReadVarUint" -> Len(buf) = 0 \/ Len(buf) < VarUintSize(buf)
      [] op.name = "ReadVarBytes" ->
            \/ Len(buf) = 0
            \/ Len(buf) < VarUintSize(buf)
            \/ Len(buf) - VarUintSize(buf)
                 < Small(ZeroExtend(IF VarUintWidth(buf[1]) = 0 THEN <<buf[1]>>
                                    ELSE SubSeq(buf, 2, VarUintSize(buf)), 8))
      [] op.name = "ReadBytes" -> Len(buf) < Small(op.arg)

\* C10: every codec read on an input that holds fewer bytes than it needs
\* (none, or only some of them) returns ErrEof and no value.
C10_ShortReadIsErrEof ==
    (cpc = "done" /\ ShortInput(cop, cin)) => cout.err = "ErrEof"

----------------------------------------------------------------------------
\* Message framing (msg.Header)

CMDLEN == 12

CMDOFFSET == 4

CHECKSUMLEN == 4

HEADERLEN == 24

\* checksum of the empty body
EmptyMsgSum == <<93, 246, 224, 226>>

\* config.Config().Magic, as its four little-endian bytes
ConfigMagic == <<7, 0, 0, 0>>

OtherMagic == <<8, 0, 0, 0>>

\* 32 MiB, the cap of spec 4.2, as its four little-endian bytes
MaxBodyLength == <<0, 0, 0, 2>>

\* core.Sha256D(buf)[:CHECKSUMLEN] of a received body
Sha256DSum(body) == body.sum

\* the bodies a message is received with: the length, and the first four
\* bytes of the SHA256D, of the body's bytes
Bodies ==
    { [len |-> <<0, 0, 0, 0>>, sum |-> EmptyMsgSum],
      [len |-> <<1, 0, 0, 0>>, sum |-> <<156, 18, 207, 220>>],
      [len |-> MaxBodyLength, sum |-> <<1, 2, 3, 4>>],
      [len |-> <<1, 0, 0, 2>>, sum |-> <<5, 6, 7, 8>>] }

WrongSum == <<9, 9, 9, 9>>

CmdBytes == {0, 97}

\* bytes.IndexByte(b, c): index from 0 of the first c in b, -1 if there is none
IndexByte(b, c) ==
    IF \E i \in 1 .. Len(b) : b[i] = c
    THEN (CHOOSE i \in 1 .. Len(b) : b[i] = c /\ \A j \in 1 .. (i - 1) : b[j] # c) - 1
    ELSE -1

\* binary.Read(hdr, binary.LittleEndian, header) on the HEADERLEN bytes
ReadHeader(buf) ==
    [Magic |-> SubSeq(buf, 1, 4),
     CMD |-> SubSeq(buf, CMDOFFSET + 1, CMDOFFSET + CMDLEN),
     Length |-> SubSeq(buf, CMDOFFSET + CMDLEN + 1, CMDOFFSET + CMDLEN + 4),
     Checksum |-> SubSeq(buf, HEADERLEN - CHECKSUMLEN + 1, HEADERLEN)]

HeaderDeserialize ==
    /\ fpc = "recv"
    /\ LET cmd == SubSeq(fbuf, CMDOFFSET + 1, CMDOFFSET + CMDLEN)
           end == IndexByte(cmd, 0)
       IN  IF end < 0 \/ end >= CMDLEN
           THEN /\ fpc' = "rejected"
                /\ ferr' = "Unexpected length of CMD"
                /\ UNCHANGED fhdr
           ELSE /\ fpc' = "parsed"
                /\ fhdr' = ReadHeader(SubSeq(fbuf, 1, HEADERLEN))
                /\ UNCHANGED ferr
    /\ UNCHANGED <<fbuf, fbody>>
    /\ UNCHANGED notFramer

HeaderVerify ==
    /\ fpc = "parsed"
    /\ IF fhdr.Magic # ConfigMagic
       THEN fpc' = "rejected" /\ ferr' = "Unmatched magic number"
       ELSE IF fhdr.Checksum # Sha256DSum(fbody)
       THEN fpc' = "rejected" /\ ferr' = "Unmatched checksum"
       ELSE fpc' = "accepted" /\ UNCHANGED ferr
    /\ UNCHANGED <<fbuf, fbody, fhdr>>
    /\ UNCHANGED notFramer

InitFramer ==
    /\ fbody \in Bodies
    /\ \E magic \in {ConfigMagic, OtherMagic}, cmd \in [1 .. CMDLEN -> CmdBytes],
          sum \in {Sha256DSum(fbody), WrongSum} :
            fbuf = magic \o cmd \o fbody.len \o sum
    /\ fhdr = <<>>
    /\ fpc = "recv"
    /\ ferr = ""
    /\ MerkleIdle
    /\ CodecIdle
    /\ AddrIdle
    /\ WireIdle
    /\ LedgerIdle
    /\ WordsIdle

NextFramer == HeaderDeserialize \/ HeaderVerify

SpecFramer == InitFramer /\ [][NextFramer]_vars

\* the command field holds a byte that is not NUL after its first NUL
CmdHasByteAfterNul(buf) ==
    LET cmd == SubSeq(buf, CMDOFFSET + 1, CMDOFFSET + CMDLEN)
    IN  \E i \in 1 .. CMDLEN : cmd[i] = 0 /\ \E j \in (i + 1) .. CMDLEN : cmd[j] # 0

\* C6: the framer rejects a message whose magic is not the configured one,
\* whose body is longer than 32 MiB, whose checksum is not that of the body,
\* or whose command field holds a non-NUL byte after its first NUL.
C6_FramerRejects ==
    (/\ fpc \in {"accepted", "rejected"}
     /\ \/ SubSeq(fbuf, 1, 4) # ConfigMagic
        \/ LessLE(MaxBodyLength, fbody.len)
        \/ SubSeq(fbuf, HEADERLEN - CHECKSUMLEN + 1, HEADERLEN) # Sha256DSum(fbody)
        \/ CmdHasByteAfterNul(fbuf))
    => fpc = "rejected"

----------------------------------------------------------------------------
\* sdk.AddrFilter: every method is a sequence of steps of its caller

Callers == 1 .. NumCallers

SeqCallers == {1}

Addr == 1 .. NumAddrs

AddrLists == UNION { [1 .. n -> Addr] : n \in 0 .. MaxList }

ListSet(list) == { list[i] : i \in 1 .. Len(list) }

MapDeleteNothing(m, k) == m

\* delete(filter.addrs, hash)
MapDelete(m, k) == [x \in (DOMAIN m) \ {k} |-> m[x]]

\* filter.addrs[*addr] = addr
MapPut(m, k, v) == [x \in (DOMAIN m) \cup {k} |-> IF x = k THEN v ELSE m[x]]

\* make(map[Uint168]*Uint168)
EmptyMap == [x \in {} |-> x]

RECURSIVE LoadAll(_, _)
LoadAll(m, list) ==
    IF Len(list) = 0 THEN m ELSE LoadAll(MapPut(m, list[1], list[1]), Tail(list))

NoOp == [name |-> "none", arg |-> 0]

\* callers, other than t, ranging over the map that is still filter.addrs
Ranging(t) == { u \in Callers \ {t} : apc[u] = "get_iter" /\ aview[u] = "live" }

\* a write to the map by t: a data race when another caller ranges over it,
\* after which the runtime may stop the process
WriteRace(t) ==
    /\ raced' = (raced \/ Ranging(t) # {})
    /\ IF Ranging(t) # {} THEN crashed' \in BOOLEAN ELSE crashed' = crashed

\* callers ranging over the map that may still come to a key written under them:
\* an entry created during a range is produced by it at most once, or skipped
MaySee(t, k) == { u \in Ranging(t) : k \notin ListSet(aacc[u]) }

Call(t) ==
    /\ ~crashed
    /\ apc[t] = "idle"
    /\ \E op \in { [name |-> "LoadAddrs", arg |-> l] : l \in AddrLists }
              \cup { [name |-> n, arg |-> a] :
                       n \in {"AddAddr", "DeleteAddr", "ContainAddr"}, a \in Addr }
              \cup { [name |-> "IsLoaded", arg |-> 0], [name |-> "GetAddrs", arg |-> 0] } :
          /\ aop' = [aop EXCEPT ![t] = op]
          /\ apc' = [apc EXCEPT ![t] = IF op.name = "GetAddrs" THEN "get" ELSE "lock"]
    /\ ares' = [ares EXCEPT ![t] = <<>>]
    /\ UNCHANGED <<addrs, lock, atodo, aview, aacc, live, kept, raced, crashed>>
    /\ UNCHANGED notAddr

\* filter.Lock()
Lock(t) ==
    /\ ~crashed
    /\ apc[t] = "lock"
    /\ lock = 0
    /\ lock' = t
    /\ apc' = [apc EXCEPT ![t] = aop[t].name]
    /\ UNCHANGED <<addrs, aop, atodo, aview, aacc, ares, live, kept, raced, crashed>>
    /\ UNCHANGED notAddr

\* LoadAddrs: filter.addrs = make(...)
LoadMake(t) ==
    /\ ~crashed
    /\ apc[t] = "LoadAddrs"
    /\ addrs' = EmptyMap
    /\ atodo' = [atodo EXCEPT ![t] = aop[t].arg]
    /\ aview' = [u \in Callers |-> IF u \in Ranging(t) THEN "old" ELSE aview[u]]
    /\ apc' = [apc EXCEPT ![t] = "load_insert"]
    /\ live' = ListSet(aop[t].arg)
    /\ kept' = kept \cup ListSet(aop[t].arg)
    /\ UNCHANGED <<lock, aop, aacc, ares, raced, crashed>>
    /\ UNCHANGED notAddr

\* LoadAddrs: one pass of the loop over addrs
LoadInsert(t) ==
    /\ ~crashed
    /\ apc[t] = "load_insert"
    /\ IF Len(atodo[t]) = 0
       THEN /\ apc' = [apc EXCEPT ![t] = "unlock"]
            /\ atodo' = [atodo EXCEPT ![t] = {}]
            /\ UNCHANGED <<addrs, raced, crashed>>
       ELSE /\ addrs' = MapPut(addrs, atodo[t][1], atodo[t][1])
            /\ WriteRace(t)
            /\ \E seen \in SUBSET MaySee(t, atodo[t][1]) :
                  atodo' = [u \in Callers |->
                              IF u = t THEN Tail(atodo[t])
                              ELSE IF u \in seen THEN atodo[u] \cup {atodo[t][1]}
                              ELSE atodo[u]]
            /\ UNCHANGED apc
    /\ UNCHANGED <<lock, aop, aview, aacc, ares, live, kept>>
    /\ UNCHANGED notAddr

IsLoaded(t) ==
    /\ ~crashed
    /\ apc[t] = "IsLoaded"
    /\ ares' = [ares EXCEPT ![t] = Cardinality(DOMAIN addrs) > 0]
    /\ apc' = [apc EXCEPT ![t] = "unlock"]
    /\ UNCHANGED <<addrs, lock, aop, atodo, aview, aacc, live, kept, raced, crashed>>
    /\ UNCHANGED notAddr

AddAddr(t) ==
    /\ ~crashed
    /\ apc[t] = "AddAddr"
    /\ addrs' = MapPut(addrs, aop[t].arg, aop[t].arg)
    /\ WriteRace(t)
    /\ \E seen \in SUBSET MaySee(t, aop[t].arg) :
          atodo' = [u \in Callers |-> IF u \in seen THEN atodo[u] \cup {aop[t].arg} ELSE atodo[u]]
    /\ live' = live \cup {aop[t].arg}
    /\ kept' = kept \cup {aop[t].arg}
    /\ apc' = [apc EXCEPT ![t] = "unlock"]
    /\ UNCHANGED <<lock, aop, aview, aacc, ares>>
    /\ UNCHANGED notAddr

DeleteAddr(t) ==
    /\ ~crashed
    /\ apc[t] = "DeleteAddr"
    /\ addrs' = MapDelete(addrs, aop[t].arg)
    /\ WriteRace(t)
    /\ live' = live \ {aop[t].arg}
    /\ kept' = kept \ {aop[t].arg}
    /\ apc' = [apc EXCEPT ![t] = "unlock"]
    /\ UNCHANGED <<lock, aop, atodo, aview, aacc, ares>>
    /\ UNCHANGED notAddr

ContainAddr(t) ==
    /\ ~crashed
    /\ apc[t] = "ContainAddr"
    /\ ares' = [ares EXCEPT ![t] = aop[t].arg \in DOMAIN addrs]
    /\ apc' = [apc EXCEPT ![t] = "unlock"]
    /\ UNCHANGED <<addrs, lock, aop, atodo, aview, aacc, live, kept, raced, crashed>>
    /\ UNCHANGED notAddr

\* defer filter.Unlock()
Unlock(t) ==
    /\ ~crashed
    /\ apc[t] = "unlock"
    /\ lock' = 0
    /\ apc' = [apc EXCEPT ![t] = "ret"]
    /\ UNCHANGED <<addrs, aop, atodo, aview, aacc, ares, live, kept, raced, crashed>>
    /\ UNCHANGED notAddr

\* GetAddrs: make the slice and start to range over filter.addrs, no lock taken
GetStart(t) ==
    /\ ~crashed
    /\ apc[t] = "get"
    /\ atodo' = [atodo EXCEPT ![t] = DOMAIN addrs]
    /\ aview' = [aview EXCEPT ![t] = "live"]
    /\ aacc' = [aacc EXCEPT ![t] = <<>>]
    /\ apc' = [apc EXCEPT ![t] = "get_iter"]
    /\ UNCHANGED <<addrs, lock, aop, ares, live, kept, raced, crashed>>
    /\ UNCHANGED notAddr

\* GetAddrs: one pass of the loop; map iteration order is not fixed
GetStep(t) ==
    /\ ~crashed
    /\ apc[t] = "get_iter"
    /\ IF atodo[t] = {}
       THEN /\ ares' = [ares EXCEPT ![t] = aacc[t]]
            /\ apc' = [apc EXCEPT ![t] = "ret"]
            /\ UNCHANGED <<atodo, aacc>>
       ELSE \E k \in atodo[t] :
              /\ atodo' = [atodo EXCEPT ![t] = @ \ {k}]
              /\ \/ /\ aview[t] = "live" /\ k \in DOMAIN addrs
                    /\ aacc' = [aacc EXCEPT ![t] = Append(@, addrs[k])]
                 \/ /\ aview[t] = "old" \/ k \notin DOMAIN addrs
                    /\ aacc' \in { [aacc EXCEPT ![t] = Append(@, k)], aacc }
              /\ UNCHANGED <<apc, ares>>
    /\ UNCHANGED <<addrs, lock, aop, aview, live, kept, raced, crashed>>
    /\ UNCHANGED notAddr

Return(t) ==
    /\ ~crashed
    /\ apc[t] = "ret"
    /\ apc' = [apc EXCEPT ![t] = "idle"]
    /\ aop' = [aop EXCEPT ![t] = NoOp]
    /\ ares' = [ares EXCEPT ![t] = <<>>]
    /\ atodo' = [atodo EXCEPT ![t] = {}]
    /\ aacc' = [aacc EXCEPT ![t] = <<>>]
    /\ UNCHANGED <<addrs, lock, aview, live, kept, raced, crashed>>
    /\ UNCHANGED notAddr

\* NewAddrFilter(initial)
InitAddr ==
    /\ \E initial \in AddrLists :
          /\ addrs = LoadAll(EmptyMap, initial)
          /\ live = ListSet(initial)
          /\ kept = ListSet(initial)
    /\ lock = 0
    /\ apc = [t \in Callers |-> "idle"]
    /\ aop = [t \in Callers |-> NoOp]
    /\ atodo = [t \in Callers |-> {}]
    /\ aview = [t \in Callers |-> "live"]
    /\ aacc = [t \in Callers |-> <<>>]
    /\ ares = [t \in Callers |-> <<>>]
    /\ raced = FALSE
    /\ crashed = FALSE
    /\ MerkleIdle
    /\ CodecIdle
    /\ FramerIdle
    /\ WireIdle
    /\ LedgerIdle
    /\ WordsIdle

Step(t) ==
    \/ Call(t) \/ Lock(t) \/ LoadMake(t) \/ LoadInsert(t) \/ IsLoaded(t) \/ AddAddr(t)
    \/ DeleteAddr(t) \/ ContainAddr(t) \/ Unlock(t) \/ GetStart(t) \/ GetStep(t) \/ Return(t)

NextAddr == \E t \in Callers : Step(t)

NextAddrSeq == \E t \in SeqCallers : Step(t)

\* any number of goroutines call the filter
SpecAddr == InitAddr /\ [][NextAddr]_vars

\* one caller makes one call after the other
SpecAddrSeq == InitAddr /\ [][NextAddrSeq]_vars

----------------------------------------------------------------------------
\* Claims about the AddrFilter

\* the caller is between the entry and the return of a method that touches the map
InBody(t) ==
    apc[t] \in {"LoadAddrs", "load_insert", "IsLoaded", "AddAddr", "DeleteAddr",
                "ContainAddr", "get_iter"}

\* C7: every operation that reads or writes the address map does so while
\* holding the lock, and no read or iteration of the map overlaps a write to it.
C7_MapAccessUnderLock ==
    /\ \A t \in Callers : InBody(t) => lock = t
    /\ ~raced

Returned(t, name) == apc[t] = "ret" /\ aop[t].name = name

NoDuplicates(list) == \A i, j \in 1 .. Len(list) : list[i] = list[j] => i = j

\* the answers of the three queries describe the set of addresses c
Answers(c) ==
    \A t \in SeqCallers :
        /\ Returned(t, "ContainAddr") => ares[t] = (aop[t].arg \in c)
        /\ Returned(t, "GetAddrs") => NoDuplicates(ares[t]) /\ ListSet(ares[t]) = c
        /\ Returned(t, "IsLoaded") => ares[t] = (c # {})

\* C8: called by one caller at a time, ContainAddr, GetAddrs and IsLoaded answer
\* for the set of addresses given to the last load (NewAddrFilter or LoadAddrs)
\* or added since, and not deleted since their last add; GetAddrs returns each
\* of them once.
C8_AnswersSinceLastLoad == Answers(live)

\* C8, as stated: the queries answer for every address ever loaded or added
\* and not deleted since, no operation but DeleteAddr removing an address.
C8_OnlyDeleteRemoves == Answers(kept)

\* GetAddrs returned the addresses of a reload that dropped an earlier address
C8_Witness ==
    /\ Returned(1, "GetAddrs")
    /\ Len(ares[1]) > 0
    /\ live # kept

----------------------------------------------------------------------------
\* WriteVarUint followed by ReadVarUint

\* the uint64 n < 2^16, little endian
LE64(n) == ZeroExtend(<<n % 256, n \div 256>>, 8)

\* 0xFFFFFFFF as a uint64
MaxUint32 == ZeroExtend([i \in 1 .. 4 |-> 255], 8)

WriteVarUintStrict(value) ==
    IF LessLE(value, LE64(253)) THEN <<value[1]>>
    ELSE IF LessLE(value, LE64(65535)) THEN <<253>> \o SubSeq(value, 1, 2)
    ELSE IF LessLE(value, MaxUint32) THEN <<254>> \o SubSeq(value, 1, 4)
    ELSE <<255>> \o value

\* the bytes WriteVarUint hands to writer.Write
WriteVarUint(value) ==
    IF LessLE(value, LE64(253)) THEN <<value[1]>>
    ELSE IF ~LessLE(LE64(65535), value) THEN <<253>> \o SubSeq(value, 1, 2)
    ELSE IF ~LessLE(MaxUint32, value) THEN <<254>> \o SubSeq(value, 1, 4)
    ELSE <<255>> \o value

\* the uint64 values tried: every boundary between two forms and its neighbours
VarUintValues ==
    { <<b1, b2, b3, b4, b5, 0, 0, b8>> :
        b1 \in {0, 1, 252, 253, 254, 255}, b2 \in {0, 1, 255}, b3 \in {0, 1, 255},
        b4 \in {0, 255}, b5 \in {0, 1, 255}, b8 \in {0, 255} }

DoWriteVarUint ==
    /\ wkind = "VarUint"
    /\ wpc = "value"
    /\ wbuf' = WriteVarUint(wval)
    /\ wpc' = "written"
    /\ UNCHANGED <<wkind, wval, wout>>
    /\ UNCHANGED notWire

DoReadVarUintBack ==
    /\ wkind = "VarUint"
    /\ wpc = "written"
    /\ wout' = ReadVarUint(wbuf, Zeros(8))
    /\ wpc' = "read"
    /\ UNCHANGED <<wkind, wval, wbuf>>
    /\ UNCHANGED notWire

InitVarUint ==
    /\ wkind = "VarUint"
    /\ wval \in VarUintValues
    /\ wbuf = <<>>
    /\ wpc = "value"
    /\ wout = <<>>
    /\ MerkleIdle
    /\ CodecIdle
    /\ FramerIdle
    /\ AddrIdle
    /\ LedgerIdle
    /\ WordsIdle

NextVarUint == DoWriteVarUint \/ DoReadVarUintBack

SpecVarUint == InitVarUint /\ [][NextVarUint]_vars

\* the number of bytes of v that are needed to hold it
BytesNeeded(v) == IF \E i \in 1 .. 8 : v[i] # 0
                  THEN CHOOSE i \in 1 .. 8 : v[i] # 0 /\ \A j \in (i + 1) .. 8 : v[j] = 0
                  ELSE 1

\* the four forms of the spec, by the size of the value
ShortestForm(v) ==
    IF BytesNeeded(v) = 1 /\ v[1] < 253 THEN <<v[1]>>
    ELSE IF BytesNeeded(v) <= 2 THEN <<253, v[1], v[2]>>
    ELSE IF BytesNeeded(v) <= 4 THEN <<254, v[1], v[2], v[3], v[4]>>
    ELSE <<255>> \o v

\* C11: WriteVarUint emits the shortest of the four forms of the value, and
\* ReadVarUint without a limit, applied to exactly those bytes, returns the
\* value with no error.
C11_VarUintRoundTrip ==
    /\ (wkind = "VarUint" /\ wpc \in {"written", "read"}) => wbuf = ShortestForm(wval)
    /\ (wkind = "VarUint" /\ wpc = "read") =>
           wout.err = "" /\ wout.val = wval /\ wout.rest = <<>>

\* 0x100000000, the smallest value that takes the nine byte form, was read back
C11_Witness ==
    /\ wkind = "VarUint" /\ wpc = "read"
    /\ wval = <<0, 0, 0, 0, 1, 0, 0, 0>>
    /\ Len(wbuf) = 9
    /\ wout.val = wval

----------------------------------------------------------------------------
\* Serialize and Deserialize of the wire types

\* Uint256: 32 bytes, written and read as they are
Uint256Size == 32

Uint256Values ==
    { [i \in 1 .. Uint256Size |-> 0], [i \in 1 .. Uint256Size |-> 255],
      [i \in 1 .. Uint256Size |-> i] }

\* core.Header, kept as the bytes it serializes to
BlockHeaderSize == 2

BlockHeaders == { [i \in 1 .. BlockHeaderSize |-> 0], [i \in 1 .. BlockHeaderSize |-> 7 + i] }

\* io.ReadFull(reader, p) with len(p) = n, as binary.Read calls it
ReadFull(buf, n) ==
    IF n = 0 THEN [val |-> <<>>, err |-> "", rest |-> buf]
    ELSE IF Len(buf) = 0 THEN [val |-> <<>>, err |-> "EOF", rest |-> buf]
    ELSE IF Len(buf) < n THEN [val |-> buf, err |-> "ErrUnexpectedEOF", rest |-> <<>>]
    ELSE [val |-> SubSeq(buf, 1, n), err |-> "", rest |-> SubSeq(buf, n + 1, Len(buf))]

\* a Deserialize that failed returns the error and no value
Failed(rd) == [val |-> <<>>, err |-> rd.err, rest |-> rd.rest]

\* WriteElement(writer, e) of a []byte
WriteVarBytes(value) == WriteVarUint(LE64(Len(value))) \o value

OutPointSerialize(op) == op.TxID \o op.Index

OutPointDeserialize(buf) ==
    LET id == ReadFull(buf, Uint256Size)
        ix == ReadFull(id.rest, 2)
    IN  IF id.err # "" THEN Failed(id)
        ELSE IF ix.err # "" THEN Failed(ix)
        ELSE [val |-> [TxID |-> id.val, Index |-> ix.val], err |-> "", rest |-> ix.rest]

DataReqSerialize(msg) == msg.Type \o msg.Hash

DataReqDeserialize(body) ==
    LET ty == ReadFull(body, 1)
        ha == ReadFull(ty.rest, Uint256Size)
    IN  IF ty.err # "" THEN Failed(ty)
        ELSE IF ha.err # "" THEN Failed(ha)
        ELSE [val |-> [Type |-> ty.val, Hash |-> ha.val], err |-> "", rest |-> ha.rest]

RECURSIVE WriteHashes(_)
WriteHashes(hashes) ==
    IF Len(hashes) = 0 THEN <<>> ELSE hashes[1] \o WriteHashes(Tail(hashes))

\* ReadElement(reader, e) of a *[]*Uint256 with n elements
RECURSIVE ReadHashes(_, _)
ReadHashes(buf, n) ==
    IF n = 0 THEN [val |-> <<>>, err |-> "", rest |-> buf]
    ELSE LET h == ReadFull(buf, Uint256Size)
             more == ReadHashes(h.rest, n - 1)
         IN  IF h.err # "" THEN Failed(h)
             ELSE IF more.err # "" THEN Failed(more)
             ELSE [val |-> <<h.val>> \o more.val, err |-> "", rest |-> more.rest]

MerkleBlockSerialize(msg) ==
    msg.BlockHeader \o msg.Transactions \o SubSeq(LE64(Len(msg.Hashes)), 1, 4)
        \o WriteHashes(msg.Hashes) \o WriteVarBytes(msg.Flags)

MerkleBlockDeserialize(body) ==
    LET hd == ReadFull(body, BlockHeaderSize)
        tx == ReadUint(hd.rest, 4)
        nh == ReadUint(tx.rest, 4)
        hh == ReadHashes(nh.rest, Small(nh.val))
        fg == ReadVarBytes(hh.rest)
    IN  IF hd.err # "" THEN Failed(hd)
        ELSE IF tx.err # "" THEN Failed(tx)
        ELSE IF nh.err # "" THEN Failed(nh)
        ELSE IF hh.err # "" THEN Failed(hh)
        ELSE IF fg.err # "" THEN Failed(fg)
        ELSE [val |-> [BlockHeader |-> hd.val, Transactions |-> tx.val, Hashes |-> hh.val,
                       Flags |-> Fill(fg.val, Small(fg.len))],
              err |-> "", rest |-> fg.rest]

\* the commands of the messages: "getdata" and "merkleblock"
Commands ==
    { <<103, 101, 116, 100, 97, 116, 97>>,
      <<109, 101, 114, 107, 108, 101, 98, 108, 111, 99, 107>> }

NewHeader(cmd, checksum, length) ==
    [Magic |-> ConfigMagic, CMD |-> Fill(cmd, CMDLEN), Length |-> length,
     Checksum |-> SubSeq(checksum, 1, CHECKSUMLEN)]

\* binary.Write(buf, binary.LittleEndian, header)
HeaderSerialize(header) == header.Magic \o header.CMD \o header.Length \o header.Checksum

\* Header.Deserialize as a function of the bytes
HeaderFromBytes(buf) ==
    LET end == IndexByte(SubSeq(buf, CMDOFFSET + 1, CMDOFFSET + CMDLEN), 0)
    IN  IF end < 0 \/ end >= CMDLEN
        THEN [val |-> <<>>, err |-> "Unexpected length of CMD", rest |-> buf]
        ELSE [val |-> ReadHeader(SubSeq(buf, 1, HEADERLEN)), err |-> "",
              rest |-> SubSeq(buf, HEADERLEN + 1, Len(buf))]

GetCMD(header) == SubSeq(header.CMD, 1, IndexByte(header.CMD, 0))

OutPoints ==
    { [TxID |-> id, Index |-> ix] : id \in Uint256Values, ix \in {<<0, 0>>, <<1, 0>>, <<255, 255>>} }

DataReqs == { [Type |-> <<ty>>, Hash |-> h] : ty \in {0, 1, 2}, h \in Uint256Values }

MerkleBlocks ==
    { [BlockHeader |-> hd, Transactions |-> tx, Hashes |-> hh, Flags |-> fg] :
        hd \in BlockHeaders,
        tx \in {<<0, 0, 0, 0>>, <<1, 0, 0, 0>>, <<255, 255, 255, 255>>},
        hh \in UNION { [1 .. n -> Uint256Values] : n \in 0 .. MaxHashes },
        fg \in UNION { [1 .. n -> {0, 255}] : n \in 0 .. MaxFlags } }

Headers ==
    { NewHeader(cmd, sum, len) :
        cmd \in Commands, sum \in {EmptyMsgSum, WrongSum},
        len \in {<<0, 0, 0, 0>>, <<1, 0, 0, 2>>} }

\* one step of a round trip of a value of type kind
WireStep(kind, from, bytes, out) ==
    /\ wkind = kind
    /\ wpc = from
    /\ wpc' = IF from = "value" THEN "written" ELSE "read"
    /\ wbuf' = bytes
    /\ wout' = out
    /\ UNCHANGED <<wkind, wval>>
    /\ UNCHANGED notWire

SerializeOutPoint == WireStep("OutPoint", "value", OutPointSerialize(wval), wout)

DeserializeOutPoint == WireStep("OutPoint", "written", wbuf, OutPointDeserialize(wbuf))

SerializeDataReq == WireStep("DataReq", "value", DataReqSerialize(wval), wout)

DeserializeDataReq == WireStep("DataReq", "written", wbuf, DataReqDeserialize(wbuf))

SerializeMerkleBlock == WireStep("MerkleBlock", "value", MerkleBlockSerialize(wval), wout)

DeserializeMerkleBlock == WireStep("MerkleBlock", "written", wbuf, MerkleBlockDeserialize(wbuf))

SerializeHeader == WireStep("Header", "value", HeaderSerialize(wval), wout)

DeserializeHeader == WireStep("Header", "written", wbuf, HeaderFromBytes(wbuf))

InitWire ==
    /\ \/ wkind = "OutPoint" /\ wval \in OutPoints
       \/ wkind = "DataReq" /\ wval \in DataReqs
       \/ wkind = "MerkleBlock" /\ wval \in MerkleBlocks
       \/ wkind = "Header" /\ wval \in Headers
    /\ wbuf = <<>>
    /\ wpc = "value"
    /\ wout = <<>>
    /\ MerkleIdle
    /\ CodecIdle
    /\ FramerIdle
    /\ AddrIdle
    /\ LedgerIdle
    /\ WordsIdle

NextWire ==
    \/ SerializeOutPoint \/ DeserializeOutPoint
    \/ SerializeDataReq \/ DeserializeDataReq
    \/ SerializeMerkleBlock \/ DeserializeMerkleBlock
    \/ SerializeHeader \/ DeserializeHeader

SpecWire == InitWire /\ [][NextWire]_vars

WireKinds == {"OutPoint", "DataReq", "MerkleBlock", "Header"}

\* C12: deserializing the bytes produced by serializing an OutPoint, a DataReq,
\* a MerkleBlock or a Header returns no error and a value equal to the
\* original in every field.
C12_WireRoundTrip ==
    (wkind \in WireKinds /\ wpc = "read") => wout.err = "" /\ wout.val = wval

----------------------------------------------------------------------------
\* The UTXO / STXO ledger

\* the transactions that concern the wallet: transaction t pays one output to
\* a registered address and, for t > 1, spends the output of transaction t - 1
Txs == 1 .. NumTx

MakeUTXO(op, atHeight) == [Op |-> op, AtHeight |-> atHeight]

\* STXO: the UTXO it used to be, the height of the spend and the spending tx
MakeSTXO(utxo, spendHeight, spendTxId) ==
    [UTXO |-> utxo, SpendHeight |-> spendHeight, SpendTxId |-> spendTxId]

Known(u, sx, op) == (\E x \in u : x.Op = op) \/ (\E x \in sx : x.UTXO.Op = op)

\* the outputs of tx, delivered at height h (0: not in a block)
ApplyOutputs(u, sx, tx, h) ==
    IF ~Known(u, sx, tx) THEN [u |-> u \cup {MakeUTXO(tx, h)}, s |-> sx]
    ELSE IF h = 0 THEN [u |-> u, s |-> sx]
    ELSE [u |-> { IF x.Op = tx THEN MakeUTXO(tx, h) ELSE x : x \in u },
          s |-> { IF x.UTXO.Op = tx
                  THEN MakeSTXO(MakeUTXO(tx, h), x.SpendHeight, x.SpendTxId)
                  ELSE x : x \in sx }]

\* the inputs of tx, delivered at height h
ApplyInputs(u, sx, tx, h) ==
    LET spent == { x \in u : x.Op = tx - 1 }
    IN  IF spent # {}
        THEN [u |-> u \ spent, s |-> sx \cup { MakeSTXO(x, h, tx) : x \in spent }]
        ELSE IF h = 0 THEN [u |-> u, s |-> sx]
        ELSE [u |-> u,
              s |-> { IF x.SpendTxId = tx THEN MakeSTXO(x.UTXO, h, tx) ELSE x : x \in sx }]

ApplyTx(u, sx, tx, h) ==
    LET out == ApplyOutputs(u, sx, tx, h)
    IN  ApplyInputs(out.u, out.s, tx, h)

\* the transactions of a block, in the order of the block
RECURSIVE ApplyBlock(_, _, _, _)
ApplyBlock(u, sx, txs, h) ==
    IF txs = {} THEN [u |-> u, s |-> sx]
    ELSE LET tx == CHOOSE x \in txs : \A y \in txs : x <= y
             one == ApplyTx(u, sx, tx, h)
         IN  ApplyBlock(one.u, one.s, txs \ {tx}, h)

RestoreNone(sx, h) == {}

\* the STXOs a detached block at height h turns back into UTXOs
Restored(sx, h) == { x \in sx : x.SpendHeight = h }

OnChain == UNION { chain[i] : i \in 1 .. Len(chain) }

\* a block of a valid chain: no transaction twice, none before the one it spends from
ValidBlock(txs) ==
    /\ txs \cap OnChain = {}
    /\ \A tx \in txs : tx > 1 => (tx - 1) \in OnChain \cup txs

\* a tx message: a transaction that is not in a block yet
DeliverTx(tx) ==
    /\ tx \notin OnChain
    /\ LET new == ApplyTx(utxos, stxos, tx, 0)
       IN  utxos' = new.u /\ stxos' = new.s
    /\ UNCHANGED chain
    /\ UNCHANGED notLedger

\* a merkleblock for the next height of the best chain, with its matched transactions
AttachBlock(txs) ==
    /\ Len(chain) < MaxHeight
    /\ ValidBlock(txs)
    /\ LET new == ApplyBlock(utxos, stxos, txs, Len(chain) + 1)
       IN  utxos' = new.u /\ stxos' = new.s
    /\ chain' = Append(chain, txs)
    /\ UNCHANGED notLedger

\* reorg: the block at the tip is detached
DetachBlock ==
    /\ Len(chain) > 0
    /\ LET h == Len(chain)
           back == Restored(stxos, h)
       IN  /\ utxos' = { x \in utxos : x.AtHeight # h } \cup { x.UTXO : x \in back }
           /\ stxos' = stxos \ back
    /\ chain' = SubSeq(chain, 1, Len(chain) - 1)
    /\ UNCHANGED notLedger

InitLedger ==
    /\ utxos = {}
    /\ stxos = {}
    /\ chain = <<>>
    /\ MerkleIdle
    /\ CodecIdle
    /\ FramerIdle
    /\ AddrIdle
    /\ WireIdle
    /\ WordsIdle

NextLedger ==
    \/ \E tx \in Txs : DeliverTx(tx)
    \/ \E txs \in SUBSET Txs : AttachBlock(txs)
    \/ DetachBlock

SpecLedger == InitLedger /\ [][NextLedger]_vars

\* C13: every STXO whose spend is in a block (SpendHeight > 0) has
\* SpendHeight >= the AtHeight of its embedded UTXO.
C13_ConfirmedSpendNotBelowFunding ==
    \A x \in stxos : x.SpendHeight > 0 => x.SpendHeight >= x.UTXO.AtHeight

\* C13, as stated: every STXO has SpendHeight >= the AtHeight of its embedded UTXO.
C13_SpendHeightAtLeastAtHeight ==
    \A x \in stxos : x.SpendHeight >= x.UTXO.AtHeight

\* an output funded in a block was spent by a transaction of a later block
C13_Witness ==
    \E x \in stxos : x.UTXO.AtHeight > 0 /\ x.SpendHeight > x.UTXO.AtHeight

----------------------------------------------------------------------------
\* CheckMerkleBlock on machine words: uint32 arithmetic wraps, every loop of
\* the function and of its helpers is taken one pass at a time

\* 2^WordBits: the values of a word are 0 .. Word - 1
Word == Pow2(WordBits)

\* x << k on a word: a shift by the width or more leaves 0
ShlW(x, k) == IF k >= WordBits THEN 0 ELSE (x * Pow2(k)) % Word

\* a - b on a word
SubW(a, b) == (a - b + Word) % Word

WordHashes == { Leaf(1), Leaf(2) }

WordFlagBytes == { 0, 1, 5, 255 }

WordRoots == { Leaf(1), Sha256D(Leaf(1), Leaf(2)) }

WordBlocks ==
    { [Transactions |-> n, Hashes |-> hh, Flags |-> fg, MerkleRoot |-> rt] :
        n \in 0 .. (Word - 1),
        hh \in UNION { [1 .. k -> WordHashes] : k \in 0 .. MaxWordHashes },
        fg \in UNION { [1 .. k -> WordFlagBytes] : k \in 0 .. MaxWordFlags },
        rt \in WordRoots }

wtip == Len(ts) - 1

\* return from CheckMerkleBlock, or the panic of an index out of range
WDone(out) ==
    /\ tpc' = "done"
    /\ tout' = out
    /\ UNCHANGED <<tblk, te, tmsb, tpos, ti, ts, tr, tdz>>
    /\ UNCHANGED notWords

WStart ==
    /\ tpc = "start"
    /\ IF tblk.Transactions = 0 THEN WDone("No transactions in merkleblock")
       ELSE IF Len(tblk.Flags) = 0 THEN WDone("No flag bits")
       ELSE /\ tpc' = "treeDepth"
            /\ te' = 0
            /\ UNCHANGED <<tblk, tmsb, tpos, ti, ts, tr, tdz, tout>>
            /\ UNCHANGED notWords

\* treeDepth: for ; (1 << e) < n; e++ {}, then msb and pos are set
WTreeDepth ==
    /\ tpc = "treeDepth"
    /\ IF ShlW(1, te) < tblk.Transactions
       THEN /\ te' = (te + 1) % Word
            /\ UNCHANGED <<tpc, tmsb, tpos>>
       ELSE /\ tmsb' = ShlW(1, te)
            /\ tpos' = SubW(ShlW(ShlW(1, te), 1), 2)
            /\ tpc' = "top"
            /\ UNCHANGED te
    /\ UNCHANGED <<tblk, ti, ts, tr, tdz, tout>>
    /\ UNCHANGED notWords

\* top of the main loop: the stack is complete, or inDeadZone is called
WTop ==
    /\ tpc = "top"
    /\ IF wtip = 0 /\ ts[1].h # Nil
       THEN IF RootMatches(ts[1].h, tblk.MerkleRoot) THEN WDone("ok")
            ELSE WDone("computed root differs")
       ELSE /\ IF tpos > SubW(ShlW(tmsb, 1), 2)
               THEN /\ tdz' = [h |-> tmsb, last |-> SubW(tblk.Transactions, 1), dead |-> TRUE]
                    /\ tpc' = "ops"
               ELSE /\ tdz' = [h |-> tmsb, last |-> SubW(tblk.Transactions, 1), dead |-> FALSE]
                    /\ tpc' = "inDeadZone"
            /\ UNCHANGED <<tblk, te, tmsb, tpos, ti, ts, tr, tout>>
            /\ UNCHANGED notWords

\* inDeadZone: for pos >= h { ... }, then return pos > last
WInDeadZone ==
    /\ tpc = "inDeadZone"
    /\ IF tpos >= tdz.h
       THEN /\ tdz' = [tdz EXCEPT !.h = BitOr(Shr(tdz.h, 1), tmsb),
                                  !.last = BitOr(Shr(tdz.last, 1), tmsb)]
            /\ UNCHANGED tpc
       ELSE /\ tdz' = [tdz EXCEPT !.dead = tpos > tdz.last]
            /\ tpc' = "ops"
    /\ UNCHANGED <<tblk, te, tmsb, tpos, ti, ts, tr, tout>>
    /\ UNCHANGED notWords

\* the position is in the dead zone: parent from the left side alone
WSingleParent ==
    /\ tpc = "ops"
    /\ tdz.dead
    /\ IF wtip < 0 THEN WDone("panic")
       ELSE LET par == MakeMerkleParent(ts[wtip + 1].h, Nil)
            IN  IF par.err # "" THEN WDone(par.err)
                ELSE IF wtip = 0 THEN WDone("panic")
                ELSE /\ ts' = [SubSeq(ts, 1, wtip) EXCEPT ![wtip].h = par.h]
                     /\ tpos' = BitOr(ts[wtip].p, 1)
                     /\ tpc' = "top"
                     /\ UNCHANGED <<tblk, te, tmsb, ti, tr, tdz, tout>>
                     /\ UNCHANGED notWords

WCanCombine == wtip > 1 /\ ts[wtip].h # Nil /\ ts[wtip + 1].h # Nil

WCombine ==
    /\ tpc = "ops"
    /\ ~tdz.dead
    /\ WCanCombine
    /\ LET par == MakeMerkleParent(ts[wtip].h, ts[wtip + 1].h)
       IN  IF par.err # "" THEN WDone(par.err)
           ELSE /\ ts' = [SubSeq(ts, 1, wtip - 1) EXCEPT ![wtip - 1].h = par.h]
                /\ tpos' = BitOr(ts[wtip - 1].p, 1)
                /\ tpc' = "top"
                /\ UNCHANGED <<tblk, te, tmsb, ti, tr, tdz, tout>>
                /\ UNCHANGED notWords

WPush ==
    /\ tpc = "ops"
    /\ ~tdz.dead
    /\ ~WCanCombine
    /\ IF Len(tblk.Hashes) = 0 THEN WDone("Ran out of hashes")
       ELSE IF Len(tblk.Flags) = 0 THEN WDone("Ran out of flag bits.")
       ELSE IF ~IsUpper(tpos, tmsb) /\ tpos >= tblk.Transactions
            THEN WDone("got into an invalid txid node")
       ELSE LET bit == FlagSet(tblk.Flags[1], ti)
                fill == ~IsUpper(tpos, tmsb) \/ ~bit
                flags == IF ti + 1 = 8 THEN Tail(tblk.Flags) ELSE tblk.Flags
            IN  /\ ts' = Append(ts, [p |-> tpos, h |-> IF fill THEN tblk.Hashes[1] ELSE Nil])
                /\ tblk' = [tblk EXCEPT !.Hashes = IF fill THEN Tail(@) ELSE @,
                                        !.Flags = flags]
                /\ tpos' = IF ~IsUpper(tpos, tmsb) THEN AfterLeaf(tpos)
                           ELSE IF fill THEN AfterFill(tpos, tmsb)
                           ELSE ShlW(BitXor(tpos, tmsb), 1)
                /\ tr' = IF IsUpper(tpos, tmsb) THEN tr ELSE Collect(tr, tblk.Hashes[1], bit)
                /\ ti' = IF ti + 1 = 8 THEN 0 ELSE ti + 1
                /\ tpc' = "top"
                /\ UNCHANGED <<te, tmsb, tdz, tout>>
                /\ UNCHANGED notWords

InitWords ==
    /\ tblk \in WordBlocks
    /\ tpc = "start"
    /\ te = 0 /\ tmsb = 0 /\ tpos = 0 /\ ti = 0
    /\ ts = <<>> /\ tr = <<>> /\ tdz = <<>> /\ tout = ""
    /\ MerkleIdle
    /\ CodecIdle
    /\ FramerIdle
    /\ AddrIdle
    /\ WireIdle
    /\ LedgerIdle

NextWords ==
    WStart \/ WTreeDepth \/ WTop \/ WInDeadZone \/ WSingleParent \/ WCombine \/ WPush

\* the call keeps running until it returns
SpecWords == InitWords /\ [][NextWords]_vars /\ WF_vars(NextWords)

\* C14: on every input the call of CheckMerkleBlock finishes with a result
\* or an error, without an index out of range.
C14_AlwaysReturns == <>(tpc = "done" /\ tout # "panic")

----------------------------------------------------------------------------
\* FunctionCode.Serialize and FunctionCode.Deserialize

\* ContractParameterType: a one byte enumeration
ParameterType(b) == [type |-> b]

ParameterTypeValues == { ParameterType(0), ParameterType(5) }

\* ContractParameterTypeToByte: one byte for each type of the list
ContractParameterTypeToByte(types) == [i \in 1 .. Len(types) |-> types[i].type]

\* ByteToContractParameterType: one type for each byte
ByteToContractParameterType(bytes) == [i \in 1 .. Len(bytes) |-> ParameterType(bytes[i])]

FunctionCodeSerialize(fc) ==
    WriteVarBytes(ContractParameterTypeToByte(fc.ParameterTypes)) \o WriteVarBytes(fc.Code)

\* Deserialize into fc: the fields it does not assign keep their value
FunctionCodeDeserialize(fc, buf) ==
    LET pt == ReadVarBytes(buf)
        withTypes == [fc EXCEPT !.ParameterTypes =
                          ByteToContractParameterType(Fill(pt.val, Small(pt.len)))]
        cd == ReadVarBytes(pt.rest)
    IN  IF pt.err # "" THEN [val |-> fc, err |-> pt.err, rest |-> pt.rest]
        ELSE IF cd.err # "" THEN [val |-> withTypes, err |-> cd.err, rest |-> cd.rest]
        ELSE [val |-> [withTypes EXCEPT !.Code = Fill(cd.val, Small(cd.len))],
              err |-> "", rest |-> cd.rest]

\* new(FunctionCode)
EmptyFunctionCode == [Code |-> <<>>, ParameterTypes |-> <<>>, ReturnTypes |-> <<>>]

FunctionCodes ==
    { [Code |-> c, ParameterTypes |-> pt, ReturnTypes |-> rt] :
        c \in UNION { [1 .. n -> {0, 255}] : n \in 0 .. MaxCode },
        pt \in UNION { [1 .. n -> ParameterTypeValues] : n \in 0 .. MaxTypes },
        rt \in UNION { [1 .. n -> ParameterTypeValues] : n \in 0 .. MaxTypes } }

SerializeFunctionCode == WireStep("FunctionCode", "value", FunctionCodeSerialize(wval), wout)

DeserializeFunctionCode ==
    WireStep("FunctionCode", "written", wbuf, FunctionCodeDeserialize(EmptyFunctionCode, wbuf))

InitFunctionCode ==
    /\ wkind = "FunctionCode"
    /\ wval \in FunctionCodes
    /\ wbuf = <<>>
    /\ wpc = "value"
    /\ wout = <<>>
    /\ MerkleIdle
    /\ CodecIdle
    /\ FramerIdle
    /\ AddrIdle
    /\ LedgerIdle
    /\ WordsIdle

NextFunctionCode == SerializeFunctionCode \/ DeserializeFunctionCode

SpecFunctionCode == InitFunctionCode /\ [][NextFunctionCode]_vars

\* C15: Deserialize applied to the output of Serialize returns no error and a
\* FunctionCode equal to the original in Code, ParameterTypes and ReturnTypes.
C15_FunctionCodeRoundTrip ==
    (wkind = "FunctionCode" /\ wpc = "read") =>
        /\ wout.err = ""
        /\ wout.val.Code = wval.Code
        /\ wout.val.ParameterTypes = wval.ParameterTypes
        /\ wout.val.ReturnTypes = wval.ReturnTypes

====
